---- MODULE Spec2Model ----
(***************************************************************************)
(* The pet food image-generation pipeline of                               *)
(* src/applications/lambda/petfood-image-generator-python/lambda_function.py *)
(* as a state machine: an EventBridge event enters lambda_handler, is       *)
(* validated, and a required image is generated with Bedrock (bounded       *)
(* retry), stored in S3 and referenced from the DynamoDB food record.       *)
(*                                                                         *)
(* Python strings whose characters matter (names, flags, exception texts)   *)
(* are sequences of one-character strings; strings that are only compared   *)
(* for equality (ids, event types) are TLA+ strings.  A dictionary is a     *)
(* record holding every key the code reads, a missing key holding Absent    *)
(* (NoStr for a character-sequence value).                                  *)
(***************************************************************************)
EXTENDS Integers, Sequences, FiniteSets, TLC

VARIABLES
    pc,             \* per execution environment: where the handler stands
    event,          \* per environment: the inbound event of the invocation
    event_detail,   \* per environment: the fields extract_event_fields returned
    attempt,        \* per environment: loop variable of generate_image_with_bedrock
    image_result,   \* per environment: what generate_image_with_bedrock returned
    storage_result, \* per environment: what store_image_in_s3 returned
    response,       \* per environment: what lambda_handler returned
    log,            \* per environment: the external calls of the invocation, in
                    \* order, each with its outcome (sleeps included)
    s3,             \* the bucket: a set of objects, at most one per key
    catalog,        \* the food table: food id -> record
    call,           \* a function of the module called on its own: its name,
                    \* its argument and, once it has returned, its value
    ci              \* the CodePipeline pipeline that the pipeline-retry function
                    \* watches, and what the function did and returned last

\* the state of the pipeline
pipeline == <<pc, event, event_detail, attempt, image_result, storage_result,
              response, log, s3, catalog>>

vars == <<pipeline, call, ci>>

-----------------------------------------------------------------------------
(* Bounds and program constants *)

NumRuns == 2

Runs == 1 .. NumRuns

MAX_RETRIES == 5

-----------------------------------------------------------------------------
(* Python strings *)

Absent == "<absent>"

NoStr == <<"<absent>">>

UpperCase == <<"A","B","C","D","E","F","G","H","I","J","K","L","M",
               "N","O","P","Q","R","S","T","U","V","W","X","Y","Z">>

LowerCase == <<"a","b","c","d","e","f","g","h","i","j","k","l","m",
               "n","o","p","q","r","s","t","u","v","w","x","y","z">>

\* str.lower() on one character
lower_char(c) ==
    IF \E i \in 1 .. Len(UpperCase) : UpperCase[i] = c
    THEN LowerCase[CHOOSE i \in 1 .. Len(UpperCase) : UpperCase[i] = c]
    ELSE c

\* str.lower()
lower(s) == [i \in 1 .. Len(s) |-> lower_char(s[i])]

\* str.replace(old, new) for a one-character old
replace(s, old, new) ==
    LET rest[t \in Seq(STRING)] ==
            IF t = <<>> THEN <<>>
            ELSE (IF Head(t) = old THEN new ELSE <<Head(t)>>) \o rest[Tail(t)]
    IN  rest[s]

\* sub in s
contains(s, sub) ==
    \E i \in 0 .. (Len(s) - Len(sub)) : SubSeq(s, i + 1, i + Len(sub)) = sub

-----------------------------------------------------------------------------
(* Inbound events: the EventBridge envelope and its "detail" dictionary *)

S_true == <<"t","r","u","e">>

S_TRUE == <<"T","R","U","E">>

S_false == <<"f","a","l","s","e">>

S_yes == <<"y","e","s">>

BeefKibble == <<"B","e","e","f"," ","K","i","b","b","l","e">>

BeefKibbleLower == <<"b","e","e","f"," ","k","i","b","b","l","e">>

UnknownFood == <<"U","n","k","n","o","w","n"," ","F","o","o","d">>

FoodIds == {"X1", "X2"}

HandledEventTypes == {"FoodItemCreated", "FoodItemUpdated"}

EventTypeValues == {Absent, "", "FoodItemDeleted"} \cup HandledEventTypes

FoodIdValues == {Absent, ""} \cup FoodIds

FoodNameValues == {NoStr, BeefKibble, BeefKibbleLower}

\* "metadata": string-valued flags; a missing "metadata" key reads as {}
Metadatas == [image_required : {NoStr, S_true, S_TRUE, S_false, S_yes}]

EmptyMetadata == [image_required |-> NoStr]

S_description == <<"t","a","s","t","y">>

\* "description": missing, empty or a text
DescriptionValues == {NoStr, <<>>, S_description}

\* the details of the events of Spec, which carry no description
Details == [event_type : EventTypeValues, food_id : FoodIdValues,
            food_name : FoodNameValues, description : {NoStr},
            metadata : Metadatas]

\* {} : no key at all
EmptyDict == [event_type |-> Absent, food_id |-> Absent,
              food_name |-> NoStr, description |-> NoStr,
              metadata |-> EmptyMetadata]

NoEvent == [has_detail |-> FALSE, detail |-> EmptyDict]

Events == {NoEvent} \cup {[has_detail |-> TRUE, detail |-> d] : d \in Details}

\* Python truthiness of an optional string
truthy(v) == v # Absent /\ v # ""

\* dict.get(key, default) for a character-sequence value
get(v, default) == IF v = NoStr THEN default ELSE v

-----------------------------------------------------------------------------
(* Exceptions the external services raise *)

BedrockErrors == {"ThrottlingException", "AccessDeniedException",
                  "ConnectionClosedError", "JSONDecodeError"}

S3Errors == {"NoSuchBucket"}

DynamoErrors == {"ConditionalCheckFailedException"}

\* isinstance(error, ClientError), error.response["Error"]["Code"], str(error)
exception(id) ==
    CASE id = "ThrottlingException" ->
            [client |-> TRUE, code |-> "ThrottlingException", str |-> <<"R","a","t","e"," ","e","x","c","e","e","d","e","d">>]
      [] id = "AccessDeniedException" ->
            [client |-> TRUE, code |-> "AccessDeniedException", str |-> <<"D","e","n","i","e","d">>]
      [] id = "ConnectionClosedError" ->
            [client |-> FALSE, code |-> "", str |-> <<"C","o","n","n","e","c","t","i","o","n"," ","c","l","o","s","e","d">>]
      [] id = "JSONDecodeError" ->
            [client |-> FALSE, code |-> "", str |-> <<"E","x","p","e","c","t","i","n","g"," ","v","a","l","u","e">>]

retryable_codes == {"ThrottlingException", "ServiceQuotaExceededException",
                    "TooManyRequestsException", "InternalServerError",
                    "ServiceUnavailableException", "RequestTimeoutException"}

is_retryable_error(error) ==
    IF error.client
    THEN error.code \in retryable_codes
    ELSE \/ contains(lower(error.str), <<"t","i","m","e","o","u","t">>)
         \/ contains(lower(error.str), <<"c","o","n","n","e","c","t","i","o","n">>)

-----------------------------------------------------------------------------
(* Values the functions return *)

\* a flag that is True whatever the test says
py_bool_true(b) == "True"

\* Python True / False where the key may also be missing (Absent)
py_bool(b) == IF b THEN "True" ELSE "False"

NoError == [text |-> <<>>, exc |-> Absent]

NoMessage == [text |-> <<>>, arg |-> Absent]

\* the keys a result body may hold; Absent, NoStr, 0: the key is missing
EmptyBody == [food_id |-> Absent, success |-> FALSE, message |-> NoMessage,
              error |-> NoError, skipped |-> Absent, image_key |-> NoStr,
              bedrock_attempts |-> 0, s3_attempts |-> 0, retryable |-> Absent]

NoResponse == [statusCode |-> 0, body |-> EmptyBody]

NoImageResult == [image_data |-> Absent, success |-> FALSE, error |-> NoError,
                  attempts |-> 0, retryable |-> Absent]

NoStorageResult == [image_key |-> NoStr, success |-> FALSE, error |-> NoError]

-----------------------------------------------------------------------------
(* extract_event_fields *)

\* validation that leaves out the event_type test
extract_event_fields_no_type_check(ev) ==
    LET detail == IF ev.has_detail THEN ev.detail ELSE EmptyDict
    IN  IF detail = EmptyDict
        THEN [raised |-> "Missing 'detail' section in event", value |-> EmptyDict]
        ELSE IF ~truthy(detail.food_id)
        THEN [raised |-> "Missing 'food_id' in event detail", value |-> EmptyDict]
        ELSE [raised |-> Absent, value |-> detail]

extract_event_fields(ev) ==
    LET detail == IF ev.has_detail THEN ev.detail ELSE EmptyDict
    IN  IF detail = EmptyDict
        THEN [raised |-> "Missing 'detail' section in event", value |-> EmptyDict]
        ELSE IF ~truthy(detail.event_type)
        THEN [raised |-> "Missing 'event_type' in event detail", value |-> EmptyDict]
        ELSE IF ~truthy(detail.food_id)
        THEN [raised |-> "Missing 'food_id' in event detail", value |-> EmptyDict]
        ELSE [raised |-> Absent, value |-> detail]

-----------------------------------------------------------------------------
(* exponential_backoff_delay.  Times are in milliseconds; what               *)
(* random.uniform(-JITTER_RANGE, JITTER_RANGE) draws is in thousandths.      *)

BASE_DELAY == 1000

MAX_DELAY == 60000

JITTER_RANGE == 100

min(a, b) == IF a <= b THEN a ELSE b

max(a, b) == IF a >= b THEN a ELSE b

\* a delay that grows by BASE_DELAY with every attempt
base_delay_linear(a) == min(BASE_DELAY * (a + 1), MAX_DELAY)

\* "delay": min(BASE_DELAY * (2**attempt), MAX_DELAY)
base_delay(a) == min(BASE_DELAY * 2 ^ a, MAX_DELAY)

\* uniform is the value random.uniform returns
exponential_backoff_delay(a, uniform) ==
    LET delay == base_delay(a)
        jitter == (uniform * delay) \div 1000
    IN  max(0, delay + jitter)

-----------------------------------------------------------------------------
(* generate_image_with_bedrock: one pass of the retry loop *)

ImageData == {"image-A", "not-base64"}

\* what an external call does: kind "ok" / "images" / "empty" / "raise", with the
\* image or the exception
BackendOutcomes ==
    [kind : {"images"}, data : ImageData]
        \cup {[kind |-> "empty", data |-> Absent]}
        \cup [kind : {"raise"}, data : BedrockErrors]

\* the last-attempt test one attempt early
is_last_attempt_early(a) == a = MAX_RETRIES - 1

\* "if attempt == MAX_RETRIES"
is_last_attempt(a) == a = MAX_RETRIES

\* every error retried
gives_up_never(error) == FALSE

\* "if not is_retryable_error(e)"
gives_up(error) == ~is_retryable_error(error)

\* the loop variable reported as it is
attempt_number_zero_based(a) == a

\* "attempts": attempt + 1
attempt_number(a) == a + 1

\* what attempt a (0-based) does with the backend's outcome: returned = the
\* function returns result; otherwise it sleeps and loops
bedrock_attempt(a, out) ==
    IF out.kind = "images"
    THEN [returned |-> TRUE,
          result |-> [image_data |-> out.data, success |-> TRUE, error |-> NoError,
                      attempts |-> attempt_number(a), retryable |-> Absent]]
    ELSE IF out.kind = "empty"
    THEN [returned |-> TRUE,
          result |-> [image_data |-> Absent, success |-> FALSE,
                      error |-> [text |-> <<"N","o"," ","i","m","a","g","e","s"," ","r","e","t","u","r","n","e","d"," ","f","r","o","m"," ","B","e","d","r","o","c","k">>,
                                 exc |-> Absent],
                      attempts |-> attempt_number(a), retryable |-> Absent]]
    ELSE IF is_last_attempt(a)
    THEN [returned |-> TRUE,
          result |-> [image_data |-> Absent, success |-> FALSE,
                      error |-> [text |-> <<"F","a","i","l","e","d"," ","a","f","t","e","r"," ","6"," ","a","t","t","e","m","p","t","s",":"," ">>,
                                 exc |-> out.data],
                      attempts |-> attempt_number(a),
                      retryable |-> py_bool(is_retryable_error(exception(out.data)))]]
    ELSE IF gives_up(exception(out.data))
    THEN [returned |-> TRUE,
          result |-> [image_data |-> Absent, success |-> FALSE,
                      error |-> [text |-> <<"N","o","n","-","r","e","t","r","y","a","b","l","e"," ","e","r","r","o","r",":"," ">>,
                                 exc |-> out.data],
                      attempts |-> attempt_number(a), retryable |-> "False"]]
    ELSE [returned |-> FALSE, result |-> NoImageResult]

\* the return after the loop ("This should never be reached")
loop_exit_result ==
    [image_data |-> Absent, success |-> FALSE,
     error |-> [text |-> <<"U","n","e","x","p","e","c","t","e","d"," ","r","e","t","r","y"," ","l","o","o","p"," ","e","x","i","t">>, exc |-> Absent],
     attempts |-> MAX_RETRIES + 1, retryable |-> Absent]

-----------------------------------------------------------------------------
(* store_image_in_s3 and update_food_record *)

\* the key built without .lower()
image_key_of_no_lower(food_name) ==
    <<"p","e","t","f","o","o","d","/">>
        \o replace(replace(food_name, " ", <<"-">>), "&", <<"a","n","d">>)
        \o <<".","j","p","g">>

\* safe_name / image_key of store_image_in_s3
image_key_of(food_name) ==
    <<"p","e","t","f","o","o","d","/">>
        \o replace(replace(lower(food_name), " ", <<"-">>), "&", <<"a","n","d">>)
        \o <<".","j","p","g">>

\* base64.b64decode(image_data) raises on None and on what is no base64
b64decode_raises(image_data) == image_data \in {Absent, "not-base64"}

PutOutcomes == {[kind |-> "ok", data |-> Absent]} \cup [kind : {"raise"}, data : S3Errors]

UpdateOutcomes ==
    {[kind |-> "ok", data |-> Absent]} \cup [kind : {"raise"}, data : DynamoErrors]

\* a put_object that writes nothing
put_object_lost(bucket, key, body, food_id) == bucket

\* a put_object that leaves nothing under Key
put_object_undone(bucket, key, body, food_id) == {o \in bucket : o.key # key}

\* a put_object that keeps what Key held next to the new object
put_object_beside(bucket, key, body, food_id) ==
    bucket \cup {[key |-> key, body |-> body, food_id |-> food_id]}

\* s3_client.put_object: the object under Key is replaced
put_object(bucket, key, body, food_id) ==
    {o \in bucket : o.key # key}
        \cup {[key |-> key, body |-> body, food_id |-> food_id]}

\* a failed put_object reported as a success
store_image_in_s3_swallow(image_data, food_name, outcome) ==
    IF b64decode_raises(image_data)
    THEN [image_key |-> <<>>, success |-> FALSE,
          error |-> [text |-> <<>>, exc |-> "binascii.Error"]]
    ELSE [image_key |-> image_key_of(food_name), success |-> TRUE, error |-> NoError]

\* "error": str(e)
store_image_in_s3(image_data, food_name, outcome) ==
    IF b64decode_raises(image_data)
    THEN [image_key |-> <<>>, success |-> FALSE,
          error |-> [text |-> <<>>, exc |-> "binascii.Error"]]
    ELSE IF outcome.kind # "ok"
    THEN [image_key |-> <<>>, success |-> FALSE,
          error |-> [text |-> <<>>, exc |-> outcome.data]]
    ELSE [image_key |-> image_key_of(food_name), success |-> TRUE, error |-> NoError]

NoRecord == [exists |-> FALSE, image |-> NoStr]

FreshRecord == [exists |-> TRUE, image |-> NoStr]

\* table.update_item(Key, "SET image = :image_key, ..."): no ConditionExpression,
\* so DynamoDB writes the attributes whether or not the item existed
update_item(table, food_id, image_key) ==
    [table EXCEPT ![food_id] = [exists |-> TRUE, image |-> image_key]]

\* a failed update_item reported as a success
update_food_record_ok(outcome) == [success |-> TRUE, error |-> NoError]

\* the failure reported without str(e)
update_food_record_lost(outcome) ==
    IF outcome.kind = "ok"
    THEN [success |-> TRUE, error |-> NoError]
    ELSE [success |-> FALSE, error |-> NoError]

update_food_record(outcome) ==
    IF outcome.kind = "ok"
    THEN [success |-> TRUE, error |-> NoError]
    ELSE [success |-> FALSE, error |-> [text |-> <<>>, exc |-> outcome.data]]

-----------------------------------------------------------------------------
(* process_food_event: its results *)

\* food_name = event_detail.get("food_name") or "Unknown Food"
food_name_of(detail) ==
    IF detail.food_name = NoStr \/ detail.food_name = <<>>
    THEN UnknownFood ELSE detail.food_name

\* the flag read with the default "true"
image_required_default_true(metadata) ==
    lower(get(metadata.image_required, S_true)) = S_true

\* metadata.get("image_required", "false").lower() == "true"
image_required(metadata) == lower(get(metadata.image_required, S_false)) = S_true

skipped_result(food_id) ==
    [EmptyBody EXCEPT !.food_id = food_id, !.success = TRUE, !.skipped = "True",
        !.message = [text |-> <<"I","m","a","g","e"," ","g","e","n","e","r","a","t","i","o","n"," ","n","o","t"," ","r","e","q","u","i","r","e","d"," ","f","o","r"," ">>,
                     arg |-> "{food_name}"]]

generation_failed_result(food_id, ir) ==
    [EmptyBody EXCEPT !.food_id = food_id, !.success = FALSE, !.error = ir.error,
        !.message = [text |-> <<"F","a","i","l","e","d"," ","t","o"," ","g","e","n","e","r","a","t","e"," ","i","m","a","g","e"," ","f","o","r"," ">>,
                     arg |-> "{food_name}"],
        !.bedrock_attempts = ir.attempts,
        \* image_result.get("retryable", True)
        !.retryable = IF ir.retryable = Absent THEN "True" ELSE ir.retryable]

storage_failed_result(food_id, ir, sr) ==
    [EmptyBody EXCEPT !.food_id = food_id, !.success = FALSE, !.error = sr.error,
        !.message = [text |-> <<"F","a","i","l","e","d"," ","t","o"," ","s","t","o","r","e"," ","i","m","a","g","e"," ","f","o","r"," ">>,
                     arg |-> "{food_name}"],
        !.bedrock_attempts = ir.attempts,
        \* storage_result.get("attempts", 1)
        !.s3_attempts = 1]

update_failed_result(food_id, ur) ==
    [EmptyBody EXCEPT !.food_id = food_id, !.success = FALSE, !.error = ur.error,
        !.message = [text |-> <<"F","a","i","l","e","d"," ","t","o"," ","u","p","d","a","t","e"," ","d","a","t","a","b","a","s","e"," ","f","o","r"," ">>,
                     arg |-> "{food_name}"]]

success_result(food_id, ir, sr) ==
    [EmptyBody EXCEPT !.food_id = food_id, !.success = TRUE,
        !.image_key = sr.image_key,
        !.message = [text |-> <<"S","u","c","c","e","s","s","f","u","l","l","y"," ","p","r","o","c","e","s","s","e","d"," ","f","o","o","d"," ","e","v","e","n","t"," ","f","o","r"," ">>,
                     arg |-> "{food_name}"],
        !.bedrock_attempts = ir.attempts, !.s3_attempts = 1]

-----------------------------------------------------------------------------
(* lambda_handler: its responses *)

\* a failed result answered with 500
processed_response_by_success(result) ==
    [statusCode |-> IF result.success THEN 200 ELSE 500, body |-> result]

\* return {"statusCode": 200, "body": json.dumps(result)}
processed_response(result) == [statusCode |-> 200, body |-> result]

unknown_event_response(event_type) ==
    [statusCode |-> 400,
     body |-> [EmptyBody EXCEPT !.success = FALSE,
                  !.message = [text |-> <<"U","n","k","n","o","w","n"," ","e","v","e","n","t"," ","t","y","p","e",":"," ">>,
                               arg |-> event_type]]]

\* the exception reported as a bad request
error_response_bad_request(exc) ==
    [statusCode |-> 400,
     body |-> [EmptyBody EXCEPT !.success = FALSE,
                  !.message = [text |-> <<"E","r","r","o","r"," ","p","r","o","c","e","s","s","i","n","g"," ","e","v","e","n","t",":"," ">>,
                               arg |-> exc]]]

\* the "except Exception as e" of lambda_handler; exc is str(e)
error_response(exc) ==
    [statusCode |-> 500,
     body |-> [EmptyBody EXCEPT !.success = FALSE,
                  !.message = [text |-> <<"E","r","r","o","r"," ","p","r","o","c","e","s","s","i","n","g"," ","e","v","e","n","t",":"," ">>,
                               arg |-> exc]]]

\* the event type branch of lambda_handler
is_handled(event_type) == event_type \in HandledEventTypes

-----------------------------------------------------------------------------
(* Prompt text.  A prompt is long and is cut, searched and measured, so it  *)
(* is a TLA+ string; Len, \o, SubSeq, Head and Tail act on it character by  *)
(* character.                                                               *)

\* str.lower() of a prompt text: each character lowered, the text halved to
\* keep the evaluation shallow
RECURSIVE text_lower(_)
text_lower(s) ==
    IF Len(s) <= 1 THEN lower_char(s)
    ELSE text_lower(SubSeq(s, 1, Len(s) \div 2))
            \o text_lower(SubSeq(s, Len(s) \div 2 + 1, Len(s)))

\* str.strip(), for blanks
RECURSIVE strip(_)
strip(s) ==
    IF s = "" THEN ""
    ELSE IF Head(s) = " " THEN strip(Tail(s))
    ELSE IF SubSeq(s, Len(s), Len(s)) = " " THEN strip(SubSeq(s, 1, Len(s) - 1))
    ELSE s

\* sep.join(parts)
RECURSIVE join(_, _)
join(parts, sep) ==
    IF parts = <<>> THEN ""
    ELSE IF Len(parts) = 1 THEN parts[1]
    ELSE parts[1] \o sep \o join(Tail(parts), sep)

\* where the occurrences of ". " start; they cannot overlap
separators(s) == {i \in 1 .. Len(s) - 1 : SubSeq(s, i, i + 1) = ". "}

\* the k-th smallest element of a set of numbers
kth(P, k) == CHOOSE p \in P : Cardinality({q \in P : q < p}) = k - 1

\* str.split(". ")
split(s) ==
    LET P == separators(s)
        n == Cardinality(P)
    IN  [k \in 1 .. n + 1 |->
            SubSeq(s, IF k = 1 THEN 1 ELSE kth(P, k - 1) + 2,
                      IF k = n + 1 THEN Len(s) ELSE kth(P, k) - 1)]

\* str.endswith(".")
endswith_dot(s) == s # "" /\ SubSeq(s, Len(s), Len(s)) = "."

\* any(keyword in text for keyword in keywords)
any_in(keywords, text) == \E k \in 1 .. Len(keywords) : contains(text, keywords[k])

-----------------------------------------------------------------------------
(* _intelligent_truncate *)

essential_keywords ==
    <<"premium pet food", "bowl", "featuring", "chunks", "pieces", "kibble",
      "meat", "fish", "chicken", "beef", "salmon">>

important_keywords ==
    <<"photography", "lighting", "presentation", "professional", "clean",
      "background", "high resolution">>

\* the class the categorizing loop gives a stripped, non-empty sentence
category(sentence) ==
    IF any_in(essential_keywords, text_lower(sentence)) THEN "essential"
    ELSE IF any_in(important_keywords, text_lower(sentence)) THEN "important"
    ELSE "optional"

\* the stripped, non-empty sentences of a prompt, in order
RECURSIVE stripped_sentences(_)
stripped_sentences(sentences) ==
    IF sentences = <<>> THEN <<>>
    ELSE (IF strip(Head(sentences)) = "" THEN <<>> ELSE <<strip(Head(sentences))>>)
            \o stripped_sentences(Tail(sentences))

\* the sentences of one class, in order
sentences_of(sentences, class) == SelectSeq(sentences, LAMBDA x : category(x) = class)

\* the starting point of the three loops
NoParts == [result_parts |-> <<>>, current_length |-> 0]

\* "for sentence in essential_sentences": a sentence that does not fit is cut
\* to the space left if that is more than 20, and the loop ends; the cut
\* sentence is not added to current_length
RECURSIVE add_essential(_, _, _)
add_essential(sentences, acc, max_length) ==
    IF sentences = <<>> THEN acc
    ELSE LET sentence == Head(sentences)
             sep == IF acc.result_parts # <<>> THEN 2 ELSE 0
             test_length == acc.current_length + Len(sentence) + sep
             available_space == max_length - acc.current_length - sep
         IN  IF test_length <= max_length
             THEN add_essential(Tail(sentences),
                      [result_parts |-> Append(acc.result_parts, sentence),
                       current_length |-> test_length], max_length)
             ELSE IF available_space > 20
             THEN [acc EXCEPT !.result_parts =
                       Append(@, SubSeq(sentence, 1, available_space - 3) \o "...")]
             ELSE acc

\* "for sentence in important_sentences" and "for sentence in optional_sentences"
RECURSIVE add_while_fits(_, _, _)
add_while_fits(sentences, acc, max_length) ==
    IF sentences = <<>> THEN acc
    ELSE LET sentence == Head(sentences)
             test_length == acc.current_length + Len(sentence) + 2
         IN  IF test_length <= max_length
             THEN add_while_fits(Tail(sentences),
                      [result_parts |-> Append(acc.result_parts, sentence),
                       current_length |-> test_length], max_length)
             ELSE acc

\* the parts the three loops keep, in order
kept_parts(prompt, max_length) ==
    LET sentences == stripped_sentences(split(prompt))
        e == add_essential(sentences_of(sentences, "essential"), NoParts, max_length)
        i == add_while_fits(sentences_of(sentences, "important"), e, max_length)
        o == add_while_fits(sentences_of(sentences, "optional"), i, max_length)
    IN  o.result_parts

intelligent_truncate(prompt, max_length) ==
    IF Len(prompt) <= max_length THEN prompt
    ELSE LET result == join(kept_parts(prompt, max_length), ". ")
         IN  IF ~endswith_dot(result) /\ Len(result) < max_length - 1
             THEN result \o "."
             ELSE result

-----------------------------------------------------------------------------
(* EnhancedPromptBuilder and generate_prompt.  A dictionary the code walks   *)
(* in order is a sequence of its entries.  food_data holds the keys build()  *)
(* reads; a missing or None text is "", which the builder treats alike.      *)

pet_contexts ==
    <<[key |-> "puppy", bowl_style |-> "small ceramic puppy bowl",
       food_characteristics |-> "small, bite-sized pieces",
       presentation |-> "playful, nurturing presentation"],
      [key |-> "kitten", bowl_style |-> "elegant small ceramic bowl",
       food_characteristics |-> "fine, delicate pieces",
       presentation |-> "refined, gentle presentation"],
      [key |-> "bunny", bowl_style |-> "natural wooden bowl",
       food_characteristics |-> "natural, wholesome pellets and pieces",
       presentation |-> "organic, rustic presentation"],
      [key |-> "dog", bowl_style |-> "sturdy ceramic dog bowl",
       food_characteristics |-> "hearty, substantial pieces",
       presentation |-> "robust, appetizing presentation"],
      [key |-> "cat", bowl_style |-> "sleek ceramic cat bowl",
       food_characteristics |-> "refined, gourmet pieces",
       presentation |-> "elegant, sophisticated presentation"]>>

food_type_contexts ==
    <<[key |-> "dry", texture |-> "crispy, crunchy kibble",
       lighting |-> "bright, clean lighting to show texture"],
      [key |-> "wet", texture |-> "moist, tender chunks in sauce",
       lighting |-> "warm lighting to enhance richness"],
      [key |-> "treats", texture |-> "appealing, bite-sized treats",
       lighting |-> "bright, inviting lighting"],
      [key |-> "raw", texture |-> "fresh, natural meat pieces",
       lighting |-> "natural lighting to show freshness"]>>

ingredient_visuals ==
    <<[key |-> "chicken", visual |-> "golden-brown meat pieces"],
      [key |-> "beef", visual |-> "rich, dark meat chunks"],
      [key |-> "salmon", visual |-> "pink, flaky fish pieces"],
      [key |-> "tuna", visual |-> "light pink fish flakes"],
      [key |-> "turkey", visual |-> "light brown, tender meat"],
      [key |-> "lamb", visual |-> "reddish-brown meat pieces"],
      [key |-> "duck", visual |-> "rich, dark meat with natural oils"],
      [key |-> "carrot", visual |-> "bright orange carrot pieces"],
      [key |-> "sweet potato", visual |-> "orange sweet potato chunks"],
      [key |-> "peas", visual |-> "vibrant green pea pieces"],
      [key |-> "spinach", visual |-> "dark green leafy flecks"],
      [key |-> "broccoli", visual |-> "small green broccoli pieces"],
      [key |-> "pumpkin", visual |-> "orange pumpkin chunks"],
      [key |-> "rice", visual |-> "white rice grains"],
      [key |-> "oats", visual |-> "golden oat flakes"],
      [key |-> "barley", visual |-> "light brown barley grains"],
      [key |-> "quinoa", visual |-> "small, round quinoa seeds"],
      [key |-> "blueberry", visual |-> "dark blue berry pieces"],
      [key |-> "cranberry", visual |-> "red berry pieces"],
      [key |-> "apple", visual |-> "light fruit pieces"],
      [key |-> "herbs", visual |-> "green herb flecks"],
      [key |-> "catnip", visual |-> "light green catnip tint"]>>

premium_indicators ==
    <<"premium", "gourmet", "organic", "natural", "grain-free", "free-range",
      "wild-caught", "artisan", "holistic">>

size_keywords ==
    <<[key |-> "small", description |-> "small-sized pieces"],
      [key |-> "mini", description |-> "mini kibble pieces"],
      [key |-> "bite", description |-> "bite-sized pieces"],
      [key |-> "chunk", description |-> "chunky pieces"],
      [key |-> "shred", description |-> "shredded texture"],
      [key |-> "flake", description |-> "flaky texture"],
      [key |-> "pellet", description |-> "pellet-shaped pieces"],
      [key |-> "kibble", description |-> "kibble pieces"],
      [key |-> "morsel", description |-> "tender morsels"]>>

price_threshold ==
    <<[key |-> "puppy", value |-> 25], [key |-> "kitten", value |-> 20],
      [key |-> "bunny", value |-> 20], [key |-> "rabbit", value |-> 20],
      [key |-> "dog", value |-> 30], [key |-> "cat", value |-> 25]>>

premium_ingredients ==
    <<"salmon", "tuna", "lamb", "duck", "venison", "bison", "truffle">>

budget_keywords == <<"affordable", "budget", "value", "economy", "basic">>

\* the first index at which a sequence of Booleans is TRUE, 0 if none: the
\* entry a loop over a dictionary stops at
first_true(tests) ==
    IF \E k \in 1 .. Len(tests) : tests[k]
    THEN CHOOSE k \in 1 .. Len(tests) : tests[k] /\ \A j \in 1 .. k - 1 : ~tests[j]
    ELSE 0

\* EnhancedPromptBuilder.__init__: the texts lowered, the price as a float
builder(food_data) ==
    [food_name |-> food_data.food_name,
     pet_type |-> text_lower(food_data.pet_type),
     food_type |-> text_lower(food_data.food_type),
     description |-> text_lower(food_data.description),
     ingredients |-> [k \in 1 .. Len(food_data.ingredients) |->
                         text_lower(food_data.ingredients[k])],
     price |-> food_data.price.value]

\* float(price) raises for a price that is no number
builder_raises(food_data) == ~food_data.price.numeric

get_pet_context(self) ==
    LET exact == first_true([k \in 1 .. Len(pet_contexts) |->
                                pet_contexts[k].key = self.pet_type])
        fuzzy == first_true([k \in 1 .. Len(pet_contexts) |->
                                \/ contains(self.pet_type, pet_contexts[k].key)
                                \/ contains(pet_contexts[k].key, self.pet_type)])
    IN  IF exact # 0 THEN pet_contexts[exact]
        ELSE IF fuzzy # 0 THEN pet_contexts[fuzzy]
        ELSE IF contains(self.pet_type, "rabbit") THEN pet_contexts[3]
        ELSE pet_contexts[4]

get_food_type_context(self) ==
    LET found == first_true([k \in 1 .. Len(food_type_contexts) |->
                                contains(self.food_type, food_type_contexts[k].key)])
    IN  IF found # 0 THEN food_type_contexts[found] ELSE food_type_contexts[1]

\* f"{self.food_name} {self.description}".lower()
name_and_description(self) ==
    text_lower(self.food_name \o " " \o self.description)

extract_size_hints(self) ==
    LET found == first_true([k \in 1 .. Len(size_keywords) |->
                                contains(name_and_description(self),
                                         size_keywords[k].key)])
    IN  IF found # 0 THEN size_keywords[found].description ELSE ""

\* a list without its empty texts
non_empty(parts) == SelectSeq(parts, LAMBDA x : x # "")

build_food_characteristics(self, pet_context, food_context) ==
    LET texture == food_context.texture
        pet_chars == pet_context.food_characteristics
    IN  join(non_empty(<<texture,
                         IF contains(texture, pet_chars) THEN "" ELSE pet_chars,
                         extract_size_hints(self)>>), ", ")

\* the ingredients that may still add a visual
visuals_cap == 3

\* the loop over self.ingredients: the first entry whose key is in the
\* ingredient and whose visual is not yet listed is added, up to visuals_cap
RECURSIVE collect_visuals(_, _)
collect_visuals(ingredients, visuals) ==
    IF ingredients = <<>> \/ Len(visuals) >= visuals_cap THEN visuals
    ELSE LET found == first_true([k \in 1 .. Len(ingredient_visuals) |->
                          /\ contains(Head(ingredients), ingredient_visuals[k].key)
                          /\ ~contains(join(visuals, " "),
                                       ingredient_visuals[k].visual)])
         IN  collect_visuals(Tail(ingredients),
                 IF found # 0 THEN Append(visuals, ingredient_visuals[found].visual)
                 ELSE visuals)

extract_ingredient_visuals(self) ==
    LET visuals == collect_visuals(self.ingredients, <<>>)
    IN  IF visuals # <<>> THEN "featuring " \o join(visuals, ", ") ELSE ""

detect_premium_product(self) ==
    LET text == name_and_description(self)
        t == first_true([k \in 1 .. Len(price_threshold) |->
                            price_threshold[k].key = self.pet_type])
        threshold == IF t # 0 THEN price_threshold[t].value ELSE 25
    IN  /\ \/ any_in(premium_indicators, text)
           \/ self.price > threshold
           \/ any_in(premium_ingredients, join(self.ingredients, " "))
        /\ ~any_in(budget_keywords, text)

get_styling_context(is_premium, pet_context, food_context) ==
    LET base == IF is_premium
                THEN <<"luxury product photography", "professional studio lighting",
                       "premium presentation">>
                ELSE <<"clean product photography", "natural lighting",
                       "appealing presentation">>
        with_presentation == Append(base, pet_context.presentation)
        lighting == food_context.lighting
        with_lighting == IF contains(join(with_presentation, " "), lighting)
                         THEN with_presentation
                         ELSE Append(with_presentation, lighting)
    IN  join(with_lighting \o <<"clean white background", "high resolution",
                                "appetizing and professional">>, ", ")

\* EnhancedPromptBuilder.build
build(self) ==
    LET pet_context == get_pet_context(self)
        food_context == get_food_type_context(self)
        components ==
            non_empty(<<"Premium pet food in " \o pet_context.bowl_style,
                        build_food_characteristics(self, pet_context, food_context),
                        extract_ingredient_visuals(self)>>)
        styling == get_styling_context(detect_premium_product(self),
                                       pet_context, food_context)
    IN  join(components, ". ") \o ". " \o styling

\* the limit of Bedrock that generate_prompt validates
PromptLimit == 512

\* no prompt at all when the builder raises
fallback_prompt_empty == ""

\* what generate_prompt returns when the builder raises
fallback_prompt ==
    "A bowl of pet food, professional product photography, clean white background"

generate_prompt(food_data) ==
    IF builder_raises(food_data) THEN fallback_prompt
    ELSE LET full_prompt == build(builder(food_data))
         IN  IF Len(full_prompt) > PromptLimit
             THEN intelligent_truncate(full_prompt, PromptLimit)
             ELSE full_prompt

\* no function is being called
NoCall == [fn |-> "none", arg |-> "", returned |-> FALSE, value |-> ""]

-----------------------------------------------------------------------------
(* The pipeline-retry function of                                            *)
(* src/cdk/lib/constructs/serverless/functions/pipeline-retry/index.py: it   *)
(* is invoked with the event of a failed pipeline execution and retries the  *)
(* stage "build".  api holds what the four calls of the CodePipeline client  *)
(* answer: kind "ok" with the data, or "raise" with the exception.           *)

\* "if recent_failures >= 3"
RetryThreshold == 3

\* maxResults=10
MaxResults == 10

\* the names of the stages whose latestExecution has the status "Failed"
failed_stages(stageStates) ==
    LET found == SelectSeq(stageStates, LAMBDA stage : stage.status = "Failed")
    IN  [k \in 1 .. Len(found) |-> found[k].stageName]

\* the Failed summaries at the head of the list: the loop breaks at the first
\* other status
recent_failures(summaries) ==
    LET other == first_true([k \in 1 .. Len(summaries) |->
                                summaries[k].status # "Failed"])
    IN  IF other = 0 THEN Len(summaries) ELSE other - 1

\* what handler returns; calls: the client calls it made, in order
answer(statusCode, message, error, retriedStage, calls) ==
    [statusCode |-> statusCode, message |-> message, error |-> error,
     retriedStage |-> retriedStage, calls |-> calls]

NoAnswer == answer(0, "", Absent, Absent, <<>>)

\* the except branch: {"statusCode": 500, "message": f"Failed to retry: ..."}
failed_to_retry(error, calls) == answer(500, "Failed to retry: ", error, Absent, calls)

handler(ev, api) ==
    IF ~ev.has_detail \/ ev.pipeline = Absent \/ ev.execution_id = Absent
    THEN failed_to_retry("KeyError", <<>>)
    ELSE IF api.get_pipeline_execution.kind = "raise"
    THEN failed_to_retry(api.get_pipeline_execution.data, <<"get_pipeline_execution">>)
    ELSE IF api.get_pipeline_state.kind = "raise"
    THEN failed_to_retry(api.get_pipeline_state.data,
                         <<"get_pipeline_execution", "get_pipeline_state">>)
    ELSE LET failed == failed_stages(api.get_pipeline_state.data)
             read == <<"get_pipeline_execution", "get_pipeline_state">>
             listed == Append(read, "list_pipeline_executions")
         IN  IF failed = <<>>
             THEN answer(200, "No failed stages to retry", Absent, Absent, read)
             ELSE IF \A k \in 1 .. Len(failed) : failed[k] # "build"
             THEN answer(200, "Build stage did not fail", Absent, Absent, read)
             ELSE IF api.list_pipeline_executions.kind = "raise"
             THEN failed_to_retry(api.list_pipeline_executions.data, listed)
             ELSE IF recent_failures(api.list_pipeline_executions.data) >= RetryThreshold
             THEN answer(200, "Max retries reached", Absent, Absent, listed)
             ELSE IF api.retry_stage_execution.kind = "raise"
             THEN failed_to_retry(api.retry_stage_execution.data,
                                  Append(listed, "retry_stage_execution"))
             ELSE answer(200, "Retry triggered successfully", Absent, "build",
                         Append(listed, "retry_stage_execution"))

\* the stages of the pipeline, none of them run yet
NoStages ==
    <<[stageName |-> "source", status |-> Absent],
      [stageName |-> "build", status |-> Absent],
      [stageName |-> "deploy", status |-> Absent]>>

\* no pipeline is watched
NoCi == [executions |-> <<>>, stageStates |-> NoStages, pending |-> {},
         retries |-> <<>>, result |-> NoAnswer]

-----------------------------------------------------------------------------
(* The state machine *)

\* an entry of the log of external calls
Call(op, out) == [op |-> op, kind |-> out.kind, data |-> out.data]

\* time.sleep(delay).  How long the sleep lasts changes nothing the program
\* holds, so the entry keeps what the delay was computed from: base, the
\* delay before the jitter (0 for the initial sleep, which has no base)
Slept(which, base) == [op |-> "sleep", kind |-> which, data |-> Absent, base |-> base]

\* what earlier invocations may have left behind: an empty bucket, or the
\* artifact of food X2 under the key of "Beef Kibble" with X2's record naming it
InitialStores ==
    {[s3 |-> {}, catalog |-> c] : c \in [FoodIds -> {NoRecord, FreshRecord}]}
        \cup
    {[s3 |-> {[key |-> image_key_of(BeefKibble), body |-> "image-A",
               food_id |-> "X2"]},
      catalog |-> [c EXCEPT !["X2"] =
                      [exists |-> TRUE, image |-> image_key_of(BeefKibble)]]] :
        c \in [FoodIds -> {NoRecord, FreshRecord}]}

\* one execution environment takes one event
Init ==
    /\ pc = [r \in Runs |-> IF r = 1 THEN "idle" ELSE "off"]
    /\ event = [r \in Runs |-> NoEvent]
    /\ event_detail = [r \in Runs |-> EmptyDict]
    /\ attempt = [r \in Runs |-> 0]
    /\ image_result = [r \in Runs |-> NoImageResult]
    /\ storage_result = [r \in Runs |-> NoStorageResult]
    /\ response = [r \in Runs |-> NoResponse]
    /\ log = [r \in Runs |-> <<>>]
    /\ \E i \in InitialStores : s3 = i.s3 /\ catalog = i.catalog
    /\ call = NoCall
    /\ ci = NoCi

\* lambda_handler returns resp
Finish(r, resp) ==
    /\ pc' = [pc EXCEPT ![r] = "done"]
    /\ response' = [response EXCEPT ![r] = resp]

\* lambda_handler from its entry to its return or to the first sleep of
\* generate_image_with_bedrock
Handle(r, ev) ==
    /\ pc[r] = "idle"
    /\ event' = [event EXCEPT ![r] = ev]
    /\ LET x == extract_event_fields(ev)
           detail == x.value
       IN  /\ event_detail' = [event_detail EXCEPT ![r] = detail]
           /\ IF x.raised # Absent
              THEN Finish(r, error_response(x.raised))
              ELSE IF ~is_handled(detail.event_type)
              THEN Finish(r, unknown_event_response(detail.event_type))
              ELSE IF ~truthy(detail.food_id)
              THEN Finish(r, error_response("Missing required field: food_id"))
              ELSE IF ~image_required(detail.metadata)
              THEN Finish(r, processed_response(skipped_result(detail.food_id)))
              ELSE /\ pc' = [pc EXCEPT ![r] = "sleep_initial"]
                   /\ UNCHANGED response
    /\ UNCHANGED <<attempt, image_result, storage_result, log, s3, catalog>>

\* time.sleep(initial_delay), then the loop starts with attempt 0
InitialDelay(r) ==
    /\ pc[r] = "sleep_initial"
    /\ log' = [log EXCEPT ![r] = Append(@, Slept("initial", 0))]
    /\ attempt' = [attempt EXCEPT ![r] = 0]
    /\ pc' = [pc EXCEPT ![r] = "invoke_model"]
    /\ UNCHANGED <<event, event_detail, image_result, storage_result, response,
                   s3, catalog>>

\* bedrock_client.invoke_model of the current attempt and what the loop body,
\* and process_food_event after it, do with the outcome
InvokeModel(r, out) ==
    /\ pc[r] = "invoke_model"
    /\ log' = [log EXCEPT ![r] = Append(@, Call("invoke_model", out))]
    /\ LET a == bedrock_attempt(attempt[r], out)
       IN  IF ~a.returned
           THEN /\ pc' = [pc EXCEPT ![r] = "sleep_backoff"]
                /\ UNCHANGED <<image_result, response>>
           ELSE /\ image_result' = [image_result EXCEPT ![r] = a.result]
                /\ IF a.result.success
                   THEN /\ pc' = [pc EXCEPT ![r] = "store_image"]
                        /\ UNCHANGED response
                   ELSE Finish(r, processed_response(
                            generation_failed_result(event_detail[r].food_id,
                                                     a.result)))
    /\ UNCHANGED <<event, event_detail, attempt, storage_result, s3, catalog>>

\* time.sleep(delay), then the next pass of "for attempt in range(MAX_RETRIES + 1)"
BackoffSleep(r) ==
    /\ pc[r] = "sleep_backoff"
    /\ log' = [log EXCEPT ![r] = Append(@, Slept("backoff", base_delay(attempt[r])))]
    /\ attempt' = [attempt EXCEPT ![r] = @ + 1]
    /\ IF attempt[r] + 1 <= MAX_RETRIES
       THEN /\ pc' = [pc EXCEPT ![r] = "invoke_model"]
            /\ UNCHANGED <<image_result, response>>
       ELSE /\ image_result' = [image_result EXCEPT ![r] = loop_exit_result]
            /\ Finish(r, processed_response(
                   generation_failed_result(event_detail[r].food_id,
                                            loop_exit_result)))
    /\ UNCHANGED <<event, event_detail, storage_result, s3, catalog>>

\* store_image_in_s3 and what process_food_event does with its result
StoreImage(r, outcome) ==
    /\ pc[r] = "store_image"
    /\ LET d == event_detail[r]
           ir == image_result[r]
           sr == store_image_in_s3(ir.image_data, food_name_of(d), outcome)
           called == ~b64decode_raises(ir.image_data)
       IN  /\ storage_result' = [storage_result EXCEPT ![r] = sr]
           /\ log' = [log EXCEPT ![r] =
                          IF called THEN Append(@, Call("put_object", outcome))
                          ELSE @]
           /\ s3' = IF called /\ outcome.kind = "ok"
                    THEN put_object(s3, image_key_of(food_name_of(d)),
                                    ir.image_data, d.food_id)
                    ELSE s3
           /\ IF sr.success
              THEN /\ pc' = [pc EXCEPT ![r] = "update_record"]
                   /\ UNCHANGED response
              ELSE Finish(r, processed_response(
                       storage_failed_result(d.food_id, ir, sr)))
    /\ UNCHANGED <<event, event_detail, attempt, image_result, catalog>>

\* update_food_record and the return of process_food_event
UpdateRecord(r, outcome) ==
    /\ pc[r] = "update_record"
    /\ LET d == event_detail[r]
           ur == update_food_record(outcome)
       IN  /\ log' = [log EXCEPT ![r] = Append(@, Call("update_item", outcome))]
           /\ catalog' = IF outcome.kind = "ok"
                         THEN update_item(catalog, d.food_id,
                                          storage_result[r].image_key)
                         ELSE catalog
           /\ Finish(r, processed_response(
                  IF ur.success
                  THEN success_result(d.food_id, image_result[r], storage_result[r])
                  ELSE update_failed_result(d.food_id, ur)))
    /\ UNCHANGED <<event, event_detail, attempt, image_result, storage_result, s3>>

\* a step of environment r
RunNext(r) ==
    /\ \/ \E ev \in Events : Handle(r, ev)
       \/ InitialDelay(r)
       \/ \E out \in BackendOutcomes : InvokeModel(r, out)
       \/ BackoffSleep(r)
       \/ \E outcome \in PutOutcomes : StoreImage(r, outcome)
       \/ \E outcome \in UpdateOutcomes : UpdateRecord(r, outcome)
    /\ UNCHANGED <<call, ci>>

Next == \E r \in Runs : RunNext(r)

Spec == Init /\ [][Next]_vars

\* a sleep ends and a call to Bedrock, S3 or DynamoDB returns or raises: the
\* handler, once started, keeps running until it returns
FairSpec == Spec /\ WF_vars(Next)

-----------------------------------------------------------------------------
(* Concurrent invocations: Lambda runs every execution environment at once,  *)
(* each with its own event, against the one bucket and the one table.  The   *)
(* events are required FoodItemCreated events; the backend answers each      *)
(* environment with an image of its own or refuses.                          *)

ConcEvents ==
    {[has_detail |-> TRUE,
      detail |-> [event_type |-> "FoodItemCreated", food_id |-> f, food_name |-> n,
                  description |-> d,
                  metadata |-> [image_required |-> S_true]]] :
        f \in FoodIds, n \in FoodNameValues, d \in DescriptionValues}

\* what the backend answers environment r
ConcOutcomes(r) ==
    {[kind |-> "images", data |-> IF r = 1 THEN "image-A" ELSE "image-B"],
     [kind |-> "raise", data |-> "AccessDeniedException"]}

ConcInit ==
    /\ pc = [r \in Runs |-> "idle"]
    /\ event = [r \in Runs |-> NoEvent]
    /\ event_detail = [r \in Runs |-> EmptyDict]
    /\ attempt = [r \in Runs |-> 0]
    /\ image_result = [r \in Runs |-> NoImageResult]
    /\ storage_result = [r \in Runs |-> NoStorageResult]
    /\ response = [r \in Runs |-> NoResponse]
    /\ log = [r \in Runs |-> <<>>]
    /\ s3 = {}
    /\ catalog = [f \in FoodIds |-> FreshRecord]
    /\ call = NoCall
    /\ ci = NoCi

\* a step of environment r
ConcRunNext(r) ==
    /\ \/ \E ev \in ConcEvents : Handle(r, ev)
       \/ InitialDelay(r)
       \/ \E out \in ConcOutcomes(r) : InvokeModel(r, out)
       \/ \E outcome \in PutOutcomes : StoreImage(r, outcome)
       \/ \E outcome \in UpdateOutcomes : UpdateRecord(r, outcome)
    /\ UNCHANGED <<call, ci>>

ConcNext == \E r \in Runs : ConcRunNext(r)

ConcSpec == ConcInit /\ [][ConcNext]_vars

-----------------------------------------------------------------------------
(* The functions of the module called on their own: generate_prompt,        *)
(* _intelligent_truncate, the key of store_image_in_s3 and                   *)
(* is_retryable_error, each applied once to an argument.                     *)

PetTypes == {"", "Puppy", "kitten", "bunny", "Dog", "cat", "rabbit", "hamster"}

FoodTypes == {"", "Dry", "wet", "treats", "raw"}

PromptNames == {"Beef Kibble", "Premium Pellet Mix", "Budget Bites"}

Descriptions == {"", "organic mini morsels"}

IngredientLists ==
    {<<>>, <<"Beef", "rice">>, <<"Duck", "carrot", "broccoli", "rice">>,
     <<"beef liver", "beef heart", "salmon oil">>}

\* a price below every threshold, one between them, one above, and a text
Prices == [numeric : {TRUE}, value : {0, 22, 35}] \cup {[numeric |-> FALSE, value |-> 0]}

FoodDatas ==
    [food_name : PromptNames, pet_type : PetTypes, food_type : FoodTypes,
     description : Descriptions, ingredients : IngredientLists, price : Prices]

\* a call of fn that has not returned
Calling(fn, arg) == [fn |-> fn, arg |-> arg, returned |-> FALSE, value |-> ""]

\* c repeated n times
RECURSIVE filler(_, _)
filler(c, n) ==
    IF n = 0 THEN ""
    ELSE IF n % 2 = 1 THEN c \o filler(c, n - 1)
    ELSE filler(c, n \div 2) \o filler(c, n \div 2)

\* sentences of each class and of several lengths: essential ones of 495, 100,
\* 300 and 4 characters, an important and an optional one
Sentences ==
    {"Premium pet food in bowl " \o filler("x", 470),
     "featuring " \o filler("y", 90),
     "featuring " \o filler("w", 290),
     "beef", "clean photography", "abc"}

\* how many sentences an assembled prompt has at most
MaxSentences == 4

\* the sequences of distinct sentences
SentenceLists ==
    UNION {{l \in [1 .. n -> Sentences] : \A i, j \in 1 .. n : i # j => l[i] # l[j]} :
           n \in 1 .. MaxSentences}

\* prompts: sentences joined as build() joins them, and one long sentence
\* without any keyword
Prompts == {join(l, ". ") : l \in SentenceLists} \cup {filler("z", 600)}


\* a call returns v
Return(v) == call' = [call EXCEPT !.returned = TRUE, !.value = v]

\* names that differ in letter case, in blanks, or in more
KeyNames ==
    {BeefKibble, BeefKibbleLower,
     <<"B","E","E","F"," ","K","I","B","B","L","E">>,
     <<"B","e","e","f"," "," ","K","i","b","b","l","e">>,
     <<" ","B","e","e","f"," ","K","i","b","b","l","e">>,
     <<"B","e","e","f"," ","K","i","b","b","l","e"," ">>,
     <<"B","e","e","f"," ","&"," ","R","i","c","e">>}

\* image_path of S3ImageManagerTool._store_image
image_path_of(food_name) ==
    replace(replace(lower(food_name), " ", <<"-">>), "&", <<"a","n","d">>)
        \o <<".","j","p","g">>

\* texts of errors: str is the message, the part of str(error) that varies
ErrorTexts ==
    {<<"R","a","t","e"," ","e","x","c","e","e","d","e","d">>,
     <<"R","e","a","d"," ","t","i","m","e","o","u","t"," ","o","n"," ","e","n","d","p","o","i","n","t">>,
     <<"C","o","n","n","e","c","t","i","o","n"," ","c","l","o","s","e","d">>,
     <<"C","O","N","N","E","C","T","I","O","N"," ","r","e","f","u","s","e","d">>,
     <<"E","x","p","e","c","t","i","n","g"," ","v","a","l","u","e">>}

\* ClientErrors of every retryable code and of two other codes, and errors
\* that are no ClientError, each with every text
Errors ==
    [client : {TRUE},
     code : retryable_codes \cup {"AccessDeniedException", "ValidationException"},
     str : ErrorTexts]
        \cup [client : {FALSE}, code : {""}, str : ErrorTexts]

GeneratePrompt ==
    /\ call.fn = "generate_prompt" /\ ~call.returned
    /\ Return(generate_prompt(call.arg))
    /\ UNCHANGED <<pipeline, ci>>

IntelligentTruncate ==
    /\ call.fn = "_intelligent_truncate" /\ ~call.returned
    /\ Return(intelligent_truncate(call.arg, PromptLimit))
    /\ UNCHANGED <<pipeline, ci>>

\* the keys store_image_in_s3 and _store_image derive for two names
DeriveKeys ==
    /\ call.fn = "image_key" /\ ~call.returned
    /\ Return([python |-> <<image_key_of(call.arg[1]), image_key_of(call.arg[2])>>,
               agent |-> <<image_path_of(call.arg[1]), image_path_of(call.arg[2])>>])
    /\ UNCHANGED <<pipeline, ci>>

\* the largest attempt index exponential_backoff_delay is called with
MaxAttemptIndex == 7

\* draws of random.uniform(-JITTER_RANGE, JITTER_RANGE)
JitterDraws == {-JITTER_RANGE, -JITTER_RANGE \div 2, 0, JITTER_RANGE \div 2, JITTER_RANGE}

BackoffCalls == [attempt : 0 .. MaxAttemptIndex, uniform : JitterDraws]

ExponentialBackoffDelay ==
    /\ call.fn = "exponential_backoff_delay" /\ ~call.returned
    /\ Return(exponential_backoff_delay(call.arg.attempt, call.arg.uniform))
    /\ UNCHANGED <<pipeline, ci>>

\* food_data whose pet_type and food_type vary: missing or empty (""), a key
\* in either letter case, a text that holds a key, and texts that hold none
ContextDatas ==
    [food_name : {"Beef Kibble"}, pet_type : PetTypes \cup {"Big Dog"},
     food_type : FoodTypes \cup {"frozen", "Dry Kibble"},
     description : {""}, ingredients : {<<>>},
     price : {[numeric |-> TRUE, value |-> 0]}]

\* _get_pet_context and _get_food_type_context of the builder of a food_data
GetContexts ==
    /\ call.fn = "_get_contexts" /\ ~call.returned
    /\ Return([pet |-> get_pet_context(builder(call.arg)).key,
               food |-> get_food_type_context(builder(call.arg)).key])
    /\ UNCHANGED <<pipeline, ci>>

IsRetryableError ==
    /\ call.fn = "is_retryable_error" /\ ~call.returned
    /\ Return(is_retryable_error(call.arg))
    /\ UNCHANGED <<pipeline, ci>>

CallInit ==
    /\ pc = [r \in Runs |-> "off"]
    /\ event = [r \in Runs |-> NoEvent]
    /\ event_detail = [r \in Runs |-> EmptyDict]
    /\ attempt = [r \in Runs |-> 0]
    /\ image_result = [r \in Runs |-> NoImageResult]
    /\ storage_result = [r \in Runs |-> NoStorageResult]
    /\ response = [r \in Runs |-> NoResponse]
    /\ log = [r \in Runs |-> <<>>]
    /\ s3 = {}
    /\ catalog = [f \in FoodIds |-> NoRecord]
    /\ ci = NoCi
    /\ \/ \E d \in FoodDatas : call = Calling("generate_prompt", d)
       \/ \E p \in Prompts : call = Calling("_intelligent_truncate", p)
       \/ \E a, b \in KeyNames : call = Calling("image_key", <<a, b>>)
       \/ \E e \in Errors : call = Calling("is_retryable_error", e)
       \/ \E b \in BackoffCalls : call = Calling("exponential_backoff_delay", b)
       \/ \E d \in ContextDatas : call = Calling("_get_contexts", d)

CallNext ==
    \/ GeneratePrompt
    \/ IntelligentTruncate
    \/ DeriveKeys
    \/ IsRetryableError
    \/ ExponentialBackoffDelay
    \/ GetContexts

CallSpec == CallInit /\ [][CallNext]_vars

\* the call of fn has returned
Called(fn) == call.fn = fn /\ call.returned

-----------------------------------------------------------------------------
(* The pipeline that the pipeline-retry function watches.  CodePipeline      *)
(* keeps one summary per execution, newest first, and the latest status of   *)
(* every stage; it sends an event when an execution fails.                   *)
(* retry_stage_execution resumes the failed execution in its stage: the      *)
(* execution keeps its id and its one summary.                               *)

\* how many executions the pipeline starts at most
MaxExecutions == 4

\* how many retries of a stage are followed at most
MaxRetryCalls == 4

ExecutionIds == <<"e1", "e2", "e3", "e4", "e5", "e6">>

set_stage(stageStates, name, status) ==
    [k \in 1 .. Len(stageStates) |->
        IF stageStates[k].stageName = name
        THEN [stageStates[k] EXCEPT !.status = status]
        ELSE stageStates[k]]

stage_status(name) ==
    LET k == CHOOSE j \in 1 .. Len(ci.stageStates) : ci.stageStates[j].stageName = name
    IN  ci.stageStates[k].status

\* the service retries a stage only of the newest execution, failed in that stage
retryable(execution_id) ==
    /\ ci.executions # <<>>
    /\ Head(ci.executions).id = execution_id
    /\ Head(ci.executions).status = "Failed"
    /\ stage_status("build") = "Failed"

\* what the client's calls answer in the present state; kinds says which of
\* them raise
api_of(ev, kinds) ==
    [get_pipeline_execution |->
        IF kinds[1] = "ok" THEN [kind |-> "ok", data |-> Absent]
        ELSE [kind |-> "raise", data |-> "ThrottlingException"],
     get_pipeline_state |->
        IF kinds[2] = "ok" THEN [kind |-> "ok", data |-> ci.stageStates]
        ELSE [kind |-> "raise", data |-> "ThrottlingException"],
     list_pipeline_executions |->
        IF kinds[3] = "ok"
        THEN [kind |-> "ok",
              data |-> SubSeq(ci.executions, 1, min(MaxResults, Len(ci.executions)))]
        ELSE [kind |-> "raise", data |-> "ThrottlingException"],
     retry_stage_execution |->
        IF kinds[4] = "ok" /\ retryable(ev.execution_id)
        THEN [kind |-> "ok", data |-> Absent]
        ELSE [kind |-> "raise", data |-> "StageNotRetryableException"]]

\* the events the function may be invoked with: without "detail", without
\* "execution-id", or the event of a failed execution
RetryEvents ==
    {[has_detail |-> FALSE, pipeline |-> Absent, execution_id |-> Absent],
     [has_detail |-> TRUE, pipeline |-> "pipeline", execution_id |-> Absent]}
        \cup {[has_detail |-> TRUE, pipeline |-> "pipeline", execution_id |-> id] :
                 id \in ci.pending}

\* a change of the source starts a new execution
StartPipelineExecution ==
    /\ Len(ci.executions) < MaxExecutions
    /\ IF ci.executions = <<>> THEN TRUE
       ELSE Head(ci.executions).status # "InProgress"
    /\ ci' = [ci EXCEPT
                 !.executions = <<[id |-> ExecutionIds[Len(ci.executions) + 1],
                                   status |-> "InProgress"]>> \o @,
                 !.stageStates = set_stage(set_stage(@, "source", "Succeeded"),
                                           "build", "InProgress")]
    /\ UNCHANGED <<pipeline, call>>

\* the stage the newest execution is in ends: a failure fails the execution
\* and sends its event; build is followed by deploy, deploy by the end
StageEnds(name, status) ==
    /\ stage_status(name) = "InProgress"
    /\ ci' = IF status = "Failed"
             THEN [ci EXCEPT !.executions[1].status = "Failed",
                             !.stageStates = set_stage(@, name, "Failed"),
                             !.pending = @ \cup {Head(ci.executions).id}]
             ELSE IF name = "build"
             THEN [ci EXCEPT !.stageStates = set_stage(set_stage(@, "build", "Succeeded"),
                                                       "deploy", "InProgress")]
             ELSE [ci EXCEPT !.executions[1].status = "Succeeded",
                             !.stageStates = set_stage(@, name, "Succeeded")]
    /\ UNCHANGED <<pipeline, call>>

\* one invocation of handler, and what a retry it triggers does to the pipeline
HandleFailure(ev, kinds) ==
    /\ Len(ci.retries) < MaxRetryCalls
    /\ LET result == handler(ev, api_of(ev, kinds))
           retried == result.retriedStage = "build"
       IN  ci' = [ci EXCEPT
                     !.pending = @ \ {ev.execution_id},
                     !.result = result,
                     !.retries = IF retried THEN Append(@, ev.execution_id) ELSE @,
                     !.executions = IF retried
                                    THEN [@ EXCEPT ![1].status = "InProgress"]
                                    ELSE @,
                     !.stageStates = IF retried
                                     THEN set_stage(@, "build", "InProgress")
                                     ELSE @]
    /\ UNCHANGED <<pipeline, call>>

RetryInit ==
    /\ pc = [r \in Runs |-> "off"]
    /\ event = [r \in Runs |-> NoEvent]
    /\ event_detail = [r \in Runs |-> EmptyDict]
    /\ attempt = [r \in Runs |-> 0]
    /\ image_result = [r \in Runs |-> NoImageResult]
    /\ storage_result = [r \in Runs |-> NoStorageResult]
    /\ response = [r \in Runs |-> NoResponse]
    /\ log = [r \in Runs |-> <<>>]
    /\ s3 = {}
    /\ catalog = [f \in FoodIds |-> NoRecord]
    /\ call = NoCall
    /\ ci = NoCi

RetryNext ==
    \/ StartPipelineExecution
    \/ \E name \in {"build", "deploy"}, status \in {"Failed", "Succeeded"} :
           StageEnds(name, status)
    \/ \E ev \in RetryEvents, kinds \in [1 .. 4 -> {"ok", "raise"}] :
           HandleFailure(ev, kinds)

RetrySpec == RetryInit /\ [][RetryNext]_vars

-----------------------------------------------------------------------------
(* What the formulas below speak of *)

\* the invocation's calls of one operation, in order
RECURSIVE calls_of(_, _)
calls_of(l, op) ==
    IF l = <<>> THEN <<>>
    ELSE (IF Head(l).op = op THEN <<Head(l)>> ELSE <<>>) \o calls_of(Tail(l), op)

invocations(r) == calls_of(log[r], "invoke_model")

puts(r) == calls_of(log[r], "put_object")

updates(r) == calls_of(log[r], "update_item")

sleeps(r) == calls_of(log[r], "sleep")

Returned(r) == pc[r] = "done"

\* generate_image_with_bedrock has returned
Generated(r) == image_result[r] # NoImageResult

Throttled == [op |-> "invoke_model", kind |-> "raise", data |-> "ThrottlingException"]

TypeOK ==
    /\ pc \in [Runs -> {"off", "idle", "sleep_initial", "invoke_model",
                        "sleep_backoff", "store_image", "update_record", "done"}]
    /\ event \in [Runs -> Events]
    /\ event_detail \in [Runs -> Details]
    /\ attempt \in [Runs -> 0 .. MAX_RETRIES + 1]
    /\ \A r \in Runs : response[r].statusCode \in {0, 200, 400, 500}
    /\ \A r \in Runs : Len(log[r]) <= 2 * (MAX_RETRIES + 1) + 2
    /\ \A o \in s3 : o.food_id \in FoodIds
    /\ catalog \in [FoodIds -> [exists : BOOLEAN,
                                image : {NoStr} \cup {o.key : o \in s3}]]


\* the event fails validation: no detail, or no non-empty event_type or food_id
Malformed(ev) ==
    \/ ~ev.has_detail
    \/ ev.detail = EmptyDict
    \/ ~truthy(ev.detail.event_type)
    \/ ~truthy(ev.detail.food_id)

\* the last element of a non-empty sequence
Last(l) == l[Len(l)]

\* a backend outcome that is an error classified non-retryable
TerminalError(c) == c.kind = "raise" /\ ~is_retryable_error(exception(c.data))

\* a backend outcome that is an error classified retryable
RetryableError(c) == c.kind = "raise" /\ is_retryable_error(exception(c.data))

-----------------------------------------------------------------------------
(* C1. Retry exhaustion: when every backend invocation of one                *)
(* generate_image_with_bedrock call raised a throttling error, the call has  *)
(* made exactly MAX_RETRIES + 1 = 6 invocations and returned success=false,  *)
(* retryable=true, attempts=6.                                               *)
RetryExhaustion ==
    \A r \in Runs :
        (/\ Generated(r)
         /\ \A i \in 1 .. Len(invocations(r)) : invocations(r)[i] = Throttled)
        => /\ Len(invocations(r)) = MAX_RETRIES + 1
           /\ Len(invocations(r)) = 6
           /\ image_result[r].success = FALSE
           /\ image_result[r].retryable = "True"
           /\ image_result[r].attempts = 6

RetryExhaustionReached ==
    \E r \in Runs :
        /\ Generated(r)
        /\ Len(invocations(r)) = MAX_RETRIES + 1
        /\ \A i \in 1 .. Len(invocations(r)) : invocations(r)[i] = Throttled

(* C2. Terminal short-circuit: the first attempt n whose error is classified *)
(* non-retryable ends the call at once with success=false, retryable=false,  *)
(* attempts=n; it is the last entry of the call log, so no backoff sleep and  *)
(* no further invocation follows it.                                         *)
TerminalShortCircuit ==
    \A r \in Runs : \A n \in 1 .. Len(invocations(r)) :
        TerminalError(invocations(r)[n])
        => /\ n = Len(invocations(r))
           /\ Last(log[r]) = invocations(r)[n]
           /\ Len(sleeps(r)) = n
           /\ Generated(r)
           /\ Returned(r)
           /\ image_result[r].success = FALSE
           /\ image_result[r].retryable = "False"
           /\ image_result[r].attempts = n

TerminalOnLastAttempt ==
    \E r \in Runs :
        /\ Len(invocations(r)) = MAX_RETRIES + 1
        /\ TerminalError(Last(invocations(r)))
        /\ Returned(r)

TerminalOnFirstAttempt ==
    \E r \in Runs :
        /\ Len(invocations(r)) = 1
        /\ TerminalError(invocations(r)[1])
        /\ Returned(r)


(* C3. Skip policy: a Created/Updated event that passes validation and whose *)
(* metadata does not mark the image as required (image_required missing, or   *)
(* any string that is not "true" in any letter case) returns success=true and *)
(* skipped=true with no external call at all, and the step that handles it    *)
(* leaves the bucket and the food table as they were.                         *)
NotMarkedRequired(ev) ==
    \/ ev.detail.metadata.image_required = NoStr
    \/ lower(ev.detail.metadata.image_required) # S_true

SkipCase(r) ==
    /\ Returned(r)
    /\ ~Malformed(event[r])
    /\ event[r].detail.event_type \in {"FoodItemCreated", "FoodItemUpdated"}
    /\ NotMarkedRequired(event[r])

SkipPolicy ==
    /\ [](\A r \in Runs :
            SkipCase(r)
            => /\ response[r].body.success = TRUE
               /\ response[r].body.skipped = "True"
               /\ response[r].body.food_id = event[r].detail.food_id
               /\ log[r] = <<>>)
    /\ [][\A r \in Runs :
            (~Returned(r) /\ SkipCase(r)')
            => (pc[r] = "idle" /\ s3' = s3 /\ catalog' = catalog)]_vars

SkippedWithArtifactsPresent ==
    \E r \in Runs :
        /\ SkipCase(r)
        /\ event[r].detail.metadata.image_required = S_yes
        /\ s3 # {}
        /\ response[r].body.skipped = "True"

(* C4. Unknown event type: a validated event whose event_type is neither     *)
(* FoodItemCreated nor FoodItemUpdated is answered with statusCode 200,       *)
(* success=true and a message containing "not handled", with no external call.*)
UnknownEventNotHandled ==
    \A r \in Runs :
        (/\ Returned(r)
         /\ ~Malformed(event[r])
         /\ event[r].detail.event_type \notin {"FoodItemCreated", "FoodItemUpdated"})
        => /\ response[r].statusCode = 200
           /\ response[r].body.success = TRUE
           /\ contains(response[r].body.message.text, <<"n","o","t"," ","h","a","n","d","l","e","d">>)
           /\ log[r] = <<>>

(* C5. Validation failure: an event with no detail, an empty detail, or a     *)
(* detail without a non-empty event_type or food_id makes validation raise;   *)
(* the handler answers statusCode 500, success=false, carrying the message of *)
(* the ValueError, and makes no external call.                                *)
ValidationFailure ==
    \A r \in Runs :
        (Returned(r) /\ Malformed(event[r]))
        => /\ response[r].statusCode = 500
           /\ response[r].body.success = FALSE
           /\ response[r].body.message.arg \in
                  {"Missing 'detail' section in event",
                   "Missing 'event_type' in event detail",
                   "Missing 'food_id' in event detail"}
           /\ log[r] = <<>>

ValidationFailureReached ==
    \E r \in Runs :
        /\ Returned(r)
        /\ event[r].has_detail
        /\ event[r].detail.event_type = ""
        /\ event[r].detail.food_id = "X1"
        /\ response[r].statusCode = 500

ScenarioKey == <<"p","e","t","f","o","o","d","/","b","e","e","f","-","k","i","b","b","l","e",".","j","p","g">>

HappyPathCase(r) ==
    /\ Returned(r)
    /\ event[r].has_detail
    /\ event[r].detail.event_type = "FoodItemCreated"
    /\ event[r].detail.food_id = "X1"
    /\ event[r].detail.food_name = BeefKibble
    /\ event[r].detail.metadata.image_required = S_true
    /\ invocations(r) # <<>>
    /\ invocations(r)[1].kind = "images"
    /\ puts(r) # <<>> /\ puts(r)[1].kind = "ok"
    /\ updates(r) # <<>> /\ updates(r)[1].kind = "ok"

HappyPath ==
    \A r \in Runs :
        HappyPathCase(r)
        => /\ Len(invocations(r)) = 1
           /\ Len(puts(r)) = 1
           /\ Len(updates(r)) = 1
           /\ Cardinality({o \in s3 : o.key = ScenarioKey}) = 1
           /\ \A o \in s3 :
                 o.key = ScenarioKey
                 => o.food_id = "X1" /\ o.body = invocations(r)[1].data
           /\ Cardinality(s3) = 1
           /\ catalog["X1"] = [exists |-> TRUE, image |-> ScenarioKey]
           /\ response[r].statusCode = 200
           /\ response[r].body.success = TRUE
           /\ response[r].body.food_id = "X1"
           /\ response[r].body.image_key = ScenarioKey
           /\ response[r].body.bedrock_attempts = 1

HappyPathReached == \E r \in Runs : HappyPathCase(r) /\ response[r].body.success

(* C8. Stage ordering and short-circuit: in the call log of every invocation  *)
(* a put_object comes only after an invoke_model that returned an image, and   *)
(* an update_item only after a put_object that succeeded; a failed generation  *)
(* is followed by no put_object and no update_item, a failed store by no       *)
(* update_item; and the bucket changes only in the store step of an            *)
(* invocation whose generation succeeded, the food table only in the update    *)
(* step of an invocation whose store succeeded.                                *)
StoreFailed(r) ==
    \/ \E i \in 1 .. Len(puts(r)) : puts(r)[i].kind = "raise"
    \/ Generated(r) /\ image_result[r].success /\ Returned(r) /\ puts(r) = <<>>

StageOrdering ==
    /\ [](\A r \in Runs :
            /\ \A i \in 1 .. Len(log[r]) :
                  log[r][i].op = "put_object"
                  => \E j \in 1 .. i - 1 :
                        log[r][j].op = "invoke_model" /\ log[r][j].kind = "images"
            /\ \A i \in 1 .. Len(log[r]) :
                  log[r][i].op = "update_item"
                  => \E j \in 1 .. i - 1 :
                        log[r][j].op = "put_object" /\ log[r][j].kind = "ok"
            /\ (Generated(r) /\ ~image_result[r].success)
               => (puts(r) = <<>> /\ updates(r) = <<>>)
            /\ StoreFailed(r) => updates(r) = <<>>)
    /\ [][/\ s3' # s3
             => \E r \in Runs : /\ pc[r] = "store_image"
                                /\ image_result[r].success
                                /\ Last(log'[r]).op = "put_object"
          /\ catalog' # catalog
             => \E r \in Runs : /\ pc[r] = "update_record"
                                /\ storage_result[r].success
                                /\ \E i \in 1 .. Len(log[r]) :
                                      /\ log[r][i].op = "put_object"
                                      /\ log[r][i].kind = "ok"]_vars

StoreFailureReached ==
    \E r \in Runs :
        /\ Returned(r)
        /\ puts(r) # <<>>
        /\ puts(r)[1].kind = "raise"
        /\ updates(r) = <<>>
        /\ response[r].body.success = FALSE

(* C9. The handler never lets a run crash: an invocation that has started and *)
(* not returned can always take its next step, and what it returns is          *)
(* well-formed (a statusCode, a body with a Boolean success); an exception,    *)
(* whether raised by validation, by the backend on the attempt that ends the   *)
(* retry loop, by the base64 decoding, by put_object or by update_item, ends   *)
(* in a result with success=false that carries the exception's message.        *)
NeverCrashes ==
    \A r \in Runs :
        /\ pc[r] \notin {"off", "idle", "done"} => ENABLED RunNext(r)
        /\ Returned(r)
           => /\ response[r].statusCode \in {200, 400, 500}
              /\ response[r].body.success \in BOOLEAN
              /\ response[r].body.message.text # <<>>
              /\ Malformed(event[r])
                 => /\ response[r].body.success = FALSE
                    /\ response[r].body.message.arg \in
                          {"Missing 'detail' section in event",
                           "Missing 'event_type' in event detail",
                           "Missing 'food_id' in event detail"}
              /\ (log[r] # <<>> /\ Last(log[r]).kind = "raise")
                 => /\ response[r].body.success = FALSE
                    /\ response[r].body.error.exc = Last(log[r]).data
              /\ (/\ log[r] # <<>>
                  /\ Last(log[r]).kind = "images"
                  /\ Last(log[r]).data = "not-base64")
                 => /\ response[r].body.success = FALSE
                    /\ response[r].body.error.exc = "binascii.Error"

UpdateExceptionAnswered ==
    \E r \in Runs :
        /\ Returned(r)
        /\ log[r] # <<>>
        /\ Last(log[r]).op = "update_item"
        /\ Last(log[r]).kind = "raise"
        /\ response[r].body.success = FALSE

(* C10. Bounded termination of generate_image_with_bedrock: a call makes at   *)
(* most MAX_RETRIES + 1 = 6 backend invocations; every invocation but the last *)
(* raised a retryable error; the call has returned exactly when its last       *)
(* invocation succeeded, came back empty, raised a terminal error or was the   *)
(* 6th; the returned attempts equals the number of invocations made; and a     *)
(* call that has started eventually returns.                                   *)
EndsTheCall(c, n) ==
    \/ c.kind \in {"images", "empty"}
    \/ TerminalError(c)
    \/ n = MAX_RETRIES + 1

BoundedGeneration ==
    /\ [](\A r \in Runs :
            LET inv == invocations(r)
            IN  /\ Len(inv) <= MAX_RETRIES + 1
                /\ Len(inv) <= 6
                /\ \A i \in 1 .. Len(inv) - 1 : RetryableError(inv[i])
                /\ Generated(r) <=> (inv # <<>> /\ EndsTheCall(Last(inv), Len(inv)))
                /\ Generated(r) => image_result[r].attempts = Len(inv))
    /\ \A r \in Runs :
            (pc[r] \in {"sleep_initial", "invoke_model", "sleep_backoff"})
                ~> Generated(r)

SucceededOnLastAttempt ==
    \E r \in Runs :
        /\ Generated(r)
        /\ Len(invocations(r)) = MAX_RETRIES + 1
        /\ image_result[r].success
        /\ image_result[r].attempts = MAX_RETRIES + 1


(* C11. Prompt length invariant: for every food_data, generate_prompt        *)
(* returns a string of at least 1 and at most 512 characters.                *)
PromptLength ==
    Called("generate_prompt")
    => /\ Len(call.value) >= 1
       /\ Len(call.value) <= 512

\* the longest prompt the tables of the builder can give
LongestPromptBuilt ==
    /\ Called("generate_prompt")
    /\ call.arg.pet_type = "bunny"
    /\ call.arg.food_type = "wet"
    /\ Len(call.arg.ingredients) = 4
    /\ Len(call.value) = 449

\* the builder raised and the fixed prompt was returned
FallbackPromptReturned ==
    /\ Called("generate_prompt")
    /\ ~call.arg.price.numeric
    /\ call.value = fallback_prompt


\* the sentences of the prompt passed to _intelligent_truncate, of one class
input_sentences(class) ==
    LET l == stripped_sentences(split(call.arg))
    IN  {l[k] : k \in {j \in 1 .. Len(l) : category(l[j]) = class}}

\* where the parts of the returned text start
part_starts == {1} \cup {q + 2 : q \in separators(call.value)}

\* where the returned text shows a sentence: whole, or a proper beginning of
\* it followed by an ellipsis
shown_at(sentence) ==
    {p \in part_starts :
        \/ /\ p + Len(sentence) - 1 <= Len(call.value)
           /\ SubSeq(call.value, p, p + Len(sentence) - 1) = sentence
        \/ \E k \in p + 1 .. Len(call.value) - 2 :
              /\ SubSeq(call.value, k, k + 2) = "..."
              /\ k - p < Len(sentence)
              /\ SubSeq(call.value, p, k - 1) = SubSeq(sentence, 1, k - p)}

\* where the returned text holds a sentence whole
kept_at(sentence) ==
    {p \in part_starts :
        /\ p + Len(sentence) - 1 <= Len(call.value)
        /\ SubSeq(call.value, p, p + Len(sentence) - 1) = sentence}

(* C12. Truncation priority: when the prompt exceeds 512 characters and has  *)
(* a sentence with an essential keyword, the returned text shows an          *)
(* essential sentence (whole, or shortened with an ellipsis) before every    *)
(* important-only and optional-only sentence it holds, and it holds no       *)
(* optional sentence while an essential sentence that would still fit in     *)
(* 512 characters is left out.                                               *)
TruncationPriority ==
    (/\ Called("_intelligent_truncate")
     /\ Len(call.arg) > 512
     /\ input_sentences("essential") # {})
    => /\ \E e \in input_sentences("essential") :
            /\ shown_at(e) # {}
            /\ \A n \in input_sentences("important") \cup input_sentences("optional") :
                  \A q \in kept_at(n) : \E p \in shown_at(e) : p < q
       /\ ~ \E o \in input_sentences("optional"), e \in input_sentences("essential") :
              /\ kept_at(o) # {}
              /\ shown_at(e) = {}
              /\ Len(call.value) + 2 + Len(e) <= 512


\* the words of a name: its maximal runs of non-blank characters, lowered
RECURSIVE words(_, _)
words(name, word) ==
    IF name = <<>> THEN (IF word = <<>> THEN <<>> ELSE <<word>>)
    ELSE IF Head(name) = " "
    THEN (IF word = <<>> THEN <<>> ELSE <<word>>) \o words(Tail(name), <<>>)
    ELSE words(Tail(name), Append(word, lower_char(Head(name))))

\* two names differ at most in letter case and in blanks
SameButCaseAndBlanks(a, b) == words(a, <<>>) = words(b, <<>>)

(* C13. Idempotent key derivation: two item names that differ only in        *)
(* letter case or in whitespace (runs of blanks, leading or trailing blanks) *)
(* get the same storage key.                                                 *)
KeyDerivation ==
    (Called("image_key") /\ SameButCaseAndBlanks(call.arg[1], call.arg[2]))
    => /\ call.value.python[1] = call.value.python[2]
       /\ call.value.agent[1] = call.value.agent[2]


\* environment r calls update_item in this step
UpdateStep(r) == Len(updates(r)') = Len(updates(r)) + 1

(* C14. The catalog update is conditional on the record's existence:         *)
(* update_food_record for a food_id without a record fails (success=false)   *)
(* and leaves the table without a record of that food_id; no step of the     *)
(* pipeline creates a record that did not exist.                             *)
ConditionalUpdate ==
    /\ [][\A r \in Runs :
            (UpdateStep(r) /\ ~catalog[event_detail[r].food_id].exists)
            => /\ response'[r].body.success = FALSE
               /\ ~catalog'[event_detail[r].food_id].exists]_vars
    /\ [][\A f \in FoodIds : ~catalog[f].exists => ~catalog'[f].exists]_vars


\* the run of r wrote its artifact and its catalog update then raised
UpdateFailedAfterStore(r) ==
    /\ Returned(r)
    /\ puts(r) # <<>> /\ Last(puts(r)).kind = "ok"
    /\ updates(r) # <<>> /\ Last(updates(r)).kind = "raise"

(* C15. No compensating rollback: when put_object succeeded and update_item  *)
(* then failed, the run returns success=false and the artifact it wrote is   *)
(* still in the bucket under its key; no run calls anything of the bucket    *)
(* but put_object, and no step removes a key from the bucket.                *)
NoRollback ==
    /\ [](\A r \in Runs :
            /\ UpdateFailedAfterStore(r)
               => /\ response[r].body.success = FALSE
                  /\ [key |-> image_key_of(food_name_of(event_detail[r])),
                      body |-> image_result[r].image_data,
                      food_id |-> event_detail[r].food_id] \in s3
            /\ \A i \in 1 .. Len(log[r]) :
                  log[r][i].op \in {"sleep", "invoke_model", "put_object", "update_item"})
    /\ [][\A o \in s3 : \E n \in s3' : n.key = o.key]_vars

NoRollbackReached ==
    \E r \in Runs :
        /\ UpdateFailedAfterStore(r)
        /\ event_detail[r].food_id = "X1"
        /\ \E o \in s3 : o.food_id = "X1" /\ o.body = "image-A"
        /\ ~catalog["X1"].exists


\* the run of r was required, got as far as the generation, and failed
RequiredRunFailed(r) ==
    /\ Returned(r)
    /\ invocations(r) # <<>>
    /\ response[r].body.success = FALSE

(* C16. Failure results carry attempt counts: a required run that fails at   *)
(* the generation, the storage or the catalog update returns success=false,  *)
(* the error of the failing stage, and the number of generation attempts     *)
(* the run consumed.                                                         *)
FailureCarriesAttempts ==
    \A r \in Runs :
        RequiredRunFailed(r)
        => /\ response[r].body.error # NoError
           /\ response[r].body.bedrock_attempts = Len(invocations(r))


\* the last call of the backend by r came back without an image
EmptyResponse(r) == invocations(r) # <<>> /\ Last(invocations(r)).kind = "empty"

(* C17. A backend response without an image is a non-retryable failure:     *)
(* generate_image_with_bedrock returns success=false at once, with no sleep  *)
(* and no further invocation, and retryable is not true, neither in what it  *)
(* returns nor in the result the handler returns.                            *)
NoImageIsTerminal ==
    \A r \in Runs :
        EmptyResponse(r)
        => /\ Generated(r)
           /\ image_result[r].success = FALSE
           /\ image_result[r].attempts = Len(invocations(r))
           /\ Last(log[r]).op = "invoke_model"
           /\ image_result[r].retryable # "True"
           /\ Returned(r)
           /\ response[r].body.success = FALSE
           /\ response[r].body.retryable # "True"


\* the run of r has written an artifact
Wrote(r) == puts(r) # <<>> /\ Last(puts(r)).kind = "ok"

\* the key the run of r writes
key_of_run(r) == image_key_of(food_name_of(event_detail[r]))

\* environment r calls put_object in this step, and the call succeeds
PutStep(r) == Len(puts(r)') = Len(puts(r)) + 1 /\ Last(puts(r)').kind = "ok"

(* C18. Write targets are scoped to one item id: two runs for different      *)
(* food ids never write the same artifact key and never update the same      *)
(* catalog record, and no run overwrites the artifact that the record of     *)
(* another food id references.                                               *)
WriteTargetsScoped ==
    /\ [](\A q, r \in Runs :
            (/\ event_detail[q].food_id # event_detail[r].food_id
             /\ Wrote(q) /\ Wrote(r))
            => key_of_run(q) # key_of_run(r))
    /\ [][\A r \in Runs : \A f \in FoodIds :
            (UpdateStep(r) /\ f # event_detail[r].food_id)
            => catalog'[f] = catalog[f]]_vars
    /\ [][\A r \in Runs : \A f \in FoodIds :
            (PutStep(r) /\ f # event_detail[r].food_id)
            => catalog[f].image # key_of_run(r)]_vars


\* every environment has run for the food id and the name of environment 1,
\* and every run has succeeded
AllSucceededForOneItem ==
    \A r \in Runs :
        /\ Returned(r)
        /\ response[r].body.success
        /\ event_detail[r].food_id = event_detail[1].food_id
        /\ event_detail[r].food_name = event_detail[1].food_name

(* C19. Idempotent re-runs, last write wins: after any interleaving of       *)
(* successful runs for one food id and one name the bucket holds exactly one *)
(* artifact of that food, under the one derived key, and the record's image  *)
(* is that key; every successful put_object leaves exactly its own object    *)
(* under its key, so the content is that of the last writer.                 *)
IdempotentReruns ==
    /\ [](AllSucceededForOneItem
          => /\ Cardinality({o \in s3 : o.food_id = event_detail[1].food_id}) = 1
             /\ Cardinality({o \in s3 : o.key = key_of_run(1)}) = 1
             /\ \E o \in s3, r \in Runs :
                   /\ o.key = key_of_run(1)
                   /\ o.food_id = event_detail[1].food_id
                   /\ o.body = image_result[r].image_data
             /\ catalog[event_detail[1].food_id].image = key_of_run(1))
    /\ [][\A r \in Runs :
            PutStep(r)
            => {o \in s3' : o.key = key_of_run(r)}
                   = {[key |-> key_of_run(r), body |-> image_result[r].image_data,
                       food_id |-> event_detail[r].food_id]}]_vars

\* both environments ran for X1 "Beef Kibble", environment 2 wrote its image
\* and environment 1 overwrote it
FirstWroteLast ==
    /\ AllSucceededForOneItem
    /\ event_detail[1].food_id = "X1"
    /\ event_detail[1].food_name = BeefKibble
    /\ \A r \in Runs : Wrote(r)
    /\ \E o \in s3 : o.body = "image-A"


\* the text of an error contains "timeout" or "connection", in any case
NetworkText(error) ==
    \/ contains(lower(error.str), <<"t","i","m","e","o","u","t">>)
    \/ contains(lower(error.str), <<"c","o","n","n","e","c","t","i","o","n">>)

(* C20. Failure classification: is_retryable_error returns true exactly      *)
(* when the error's code is one of the retryable codes or its text contains  *)
(* "timeout" or "connection" in any case; this holds for every error, a      *)
(* ClientError with another code whose text contains "timeout" included.     *)
FailureClassification ==
    Called("is_retryable_error")
    => (call.value <=> (call.arg.code \in retryable_codes \/ NetworkText(call.arg)))


\* the call of run r has returned after MAX_RETRIES + 1 invocations, the last
\* of which raised
Exhausted(r) ==
    /\ Generated(r)
    /\ Len(invocations(r)) = MAX_RETRIES + 1
    /\ Last(invocations(r)).kind = "raise"

(* C21. On exhaustion the retryable flag reflects the last error: when       *)
(* generate_image_with_bedrock returns after its 6th failed attempt, it      *)
(* returns success=false, attempts=6 and retryable equal to the              *)
(* classification of the 6th attempt's error, whatever the errors of the     *)
(* attempts before it were.                                                  *)
RetryableOfLastError ==
    \A r \in Runs :
        Exhausted(r)
        => /\ ~image_result[r].success
           /\ image_result[r].attempts = MAX_RETRIES + 1
           /\ image_result[r].retryable =
                  (IF is_retryable_error(exception(Last(invocations(r)).data))
                   THEN "True" ELSE "False")

\* five throttling errors and then a terminal error
TerminalAfterFiveThrottled ==
    \E r \in Runs :
        /\ Exhausted(r)
        /\ \A i \in 1 .. MAX_RETRIES : invocations(r)[i] = Throttled
        /\ Last(invocations(r)).data = "AccessDeniedException"
        /\ image_result[r].retryable = "False"
        /\ image_result[r].attempts = MAX_RETRIES + 1


(* C22. Backoff delay is capped: for every attempt index and every jitter    *)
(* draw, exponential_backoff_delay returns at least 0 and at most MAX_DELAY  *)
(* (60 s).                                                                   *)
BackoffDelayCapped ==
    Called("exponential_backoff_delay")
    => call.value >= 0 /\ call.value <= MAX_DELAY


\* the backoff sleeps of run r, in order
backoffs(r) == SelectSeq(sleeps(r), LAMBDA c : c.kind = "backoff")

\* entry i of the log of run r is an invocation after which the call returns
EndsAt(r, i) ==
    /\ log[r][i].op = "invoke_model"
    /\ \/ log[r][i].kind \in {"images", "empty"}
       \/ TerminalError(log[r][i])
       \/ Len(calls_of(SubSeq(log[r], 1, i), "invoke_model")) = MAX_RETRIES + 1

(* C23. Sleep/attempt ordering in generate_image_with_bedrock: the initial   *)
(* jitter sleep happens exactly once, before the first invocation; a backoff *)
(* sleep happens only directly after a retryable failure that is not the     *)
(* last allowed attempt and directly before the next invocation; no sleep    *)
(* follows a success, a terminal failure, an empty response or the 6th       *)
(* failed attempt; a call that ends after k attempts has made exactly k-1    *)
(* backoff sleeps, whose bases are BASE_DELAY*2^0, ..., BASE_DELAY*2^(k-2).  *)
SleepOrdering ==
    \A r \in Runs :
        /\ log[r] # <<>>
           => /\ log[r][1].op = "sleep" /\ log[r][1].kind = "initial"
              /\ \A i \in 2 .. Len(log[r]) :
                     ~(log[r][i].op = "sleep" /\ log[r][i].kind = "initial")
        /\ \A i \in 1 .. Len(log[r]) :
               log[r][i].op = "sleep" /\ log[r][i].kind = "backoff"
               => /\ i > 1
                  /\ log[r][i - 1].op = "invoke_model"
                  /\ RetryableError(log[r][i - 1])
                  /\ ~EndsAt(r, i - 1)
                  /\ IF i < Len(log[r])
                     THEN log[r][i + 1].op = "invoke_model"
                     ELSE pc[r] = "invoke_model"
        /\ \A i \in 1 .. Len(log[r]) :
               EndsAt(r, i)
               => /\ pc[r] # "sleep_backoff"
                  /\ i < Len(log[r]) => log[r][i + 1].op # "sleep"
        /\ Generated(r)
           => /\ Len(backoffs(r)) = image_result[r].attempts - 1
              /\ \A j \in 1 .. Len(backoffs(r)) :
                     backoffs(r)[j].base = BASE_DELAY * 2 ^ (j - 1)

\* a call that ended after 6 attempts, with its five backoff sleeps
FiveBackoffSleeps ==
    \E r \in Runs :
        /\ Returned(r)
        /\ image_result[r].attempts = MAX_RETRIES + 1
        /\ [j \in 1 .. Len(backoffs(r)) |-> backoffs(r)[j].base]
               = <<1000, 2000, 4000, 8000, 16000>>


(* C24. Truncation respects the budget: for every prompt longer than         *)
(* max_length, _intelligent_truncate returns a string of at most max_length  *)
(* characters, also when an essential sentence was shortened with an         *)
(* ellipsis and important or optional sentences are appended after it.       *)
TruncationWithinBudget ==
    Called("_intelligent_truncate") /\ Len(call.arg) > PromptLimit
    => Len(call.value) <= PromptLimit


\* run r has passed validation and the required test and composed its prompt
\* (Step 1 of process_food_event), which precedes the initial sleep
Composed(r) == pc[r] = "sleep_initial" \/ log[r] # <<>>

\* the description of the event of run r is missing or empty
NoDescription(r) == event[r].detail.description \in {NoStr, <<>>}

(* C25. Task descriptor invariant: every task that passes validation and     *)
(* reaches prompt composition or the generation backend has a non-empty      *)
(* food_id and a non-empty description; an event whose description is        *)
(* missing or empty is rejected by validation (statusCode 500) and triggers  *)
(* no generation call.                                                       *)
TaskDescriptor ==
    \A r \in Runs :
        /\ Composed(r)
           => /\ truthy(event_detail[r].food_id)
              /\ event_detail[r].description \notin {NoStr, <<>>}
        /\ pc[r] # "idle" /\ NoDescription(r)
           => /\ Returned(r)
              /\ response[r].statusCode = 500
              /\ invocations(r) = <<>>


\* the keys of a table, in the order of the table
keys_of(table) == [k \in 1 .. Len(table) |-> table[k].key]

\* the first key of a table that a non-empty text holds or is held by, "" if
\* there is none
substring_match(table, text) ==
    LET found == first_true([k \in 1 .. Len(table) |->
                                /\ text # ""
                                /\ \/ contains(text, table[k].key)
                                   \/ contains(table[k].key, text)])
    IN  IF found = 0 THEN "" ELSE table[found].key

(* C26. Category fallback: the pet context is that of the lower-cased        *)
(* pet_type when it is a key, else that of the first key matching it as a    *)
(* substring, else the default "dog"; a missing, empty or unknown pet_type   *)
(* resolves to "dog", and an unknown or missing food_type to the first       *)
(* food type, "dry".                                                         *)
CategoryFallback ==
    Called("_get_contexts")
    => LET pet_type == text_lower(call.arg.pet_type)
           food_type == text_lower(call.arg.food_type)
       IN  /\ call.value.pet =
                  (IF \E k \in 1 .. Len(pet_contexts) : pet_contexts[k].key = pet_type
                   THEN pet_type
                   ELSE IF substring_match(pet_contexts, pet_type) # ""
                   THEN substring_match(pet_contexts, pet_type)
                   ELSE "dog")
           /\ pet_type = "" => call.value.pet = "dog"
           /\ substring_match(food_type_contexts, food_type) = ""
              => call.value.food = "dry" /\ keys_of(food_type_contexts)[1] = "dry"


(* C27. No retry at the persistence stages: every run calls put_object at    *)
(* most once and update_item at most once, whatever they return; when        *)
(* either raises, the run has returned success=false with that call as the   *)
(* last external call it made.                                               *)
NoPersistenceRetry ==
    \A r \in Runs :
        /\ Len(puts(r)) <= 1
        /\ Len(updates(r)) <= 1
        /\ \A i \in 1 .. Len(log[r]) :
               log[r][i].op \in {"put_object", "update_item"} /\ log[r][i].kind = "raise"
               => /\ i = Len(log[r])
                  /\ Returned(r)
                  /\ response[r].statusCode = 200
                  /\ ~response[r].body.success

\* put_object raised after a generation that needed two attempts
PutRaisedOnce ==
    \E r \in Runs :
        /\ Returned(r)
        /\ Len(invocations(r)) = 2
        /\ Len(puts(r)) = 1 /\ puts(r)[1].kind = "raise"
        /\ updates(r) = <<>>
        /\ ~response[r].body.success


\* a stage of the pipeline of run r failed: the generation returned no image,
\* put_object or the decoding before it failed, or update_item raised
StageFailed(r) ==
    \/ Generated(r) /\ ~image_result[r].success
    \/ storage_result[r] # NoStorageResult /\ ~storage_result[r].success
    \/ updates(r) # <<>> /\ Last(updates(r)).kind = "raise"

(* C28. A stage failure inside the pipeline is not an HTTP error: whenever   *)
(* generation, storage or the catalog update fails for a validated           *)
(* Created/Updated event that requires an image, the handler returns         *)
(* statusCode 200 with success=false; statusCode 500 is returned only for   *)
(* an exception that escapes to the handler: here a validation error, raised *)
(* before any external call.                                                 *)
StageFailureIsNot500 ==
    \A r \in Runs :
        /\ StageFailed(r)
           => /\ Returned(r)
              /\ response[r].statusCode = 200
              /\ ~response[r].body.success
        /\ Returned(r) /\ response[r].statusCode = 500
           => /\ Malformed(event[r])
              /\ log[r] = <<>>
              /\ ~response[r].body.success

\* the decoding of an image that is no base64 failed, after one invocation
DecodeFailedAnswered200 ==
    \E r \in Runs :
        /\ Returned(r)
        /\ Generated(r) /\ image_result[r].success
        /\ puts(r) = <<>>
        /\ storage_result[r] # NoStorageResult /\ ~storage_result[r].success
        /\ response[r].statusCode = 200


\* the keys under which the bucket holds an artifact
stored_keys == {o.key : o \in s3}

(* C29. Catalog references never dangle: in every state of every             *)
(* interleaving of concurrent runs, a record whose image the pipeline set    *)
(* to key k has an artifact under k in the bucket; a record's image is set   *)
(* only by a run that has put its artifact, and no step removes a key from   *)
(* the bucket.                                                               *)
NoDanglingReference ==
    /\ [](\A f \in FoodIds :
              catalog[f].image # NoStr => catalog[f].image \in stored_keys)
    /\ [][/\ stored_keys \subseteq stored_keys'
          /\ \A f \in FoodIds :
                 catalog'[f] # catalog[f]
                 => \E r \in Runs : /\ Wrote(r)
                                    /\ catalog'[f].image = key_of_run(r)
                                    /\ Len(updates(r)') = Len(updates(r)) + 1]_vars

\* the record of one food names an artifact that a run for another food has
\* since overwritten
ReferenceSurvivesOverwrite ==
    \E f \in FoodIds :
        /\ catalog[f].image # NoStr
        /\ \E o \in s3 : o.key = catalog[f].image /\ o.food_id # f


\* how often the stage of one execution was retried
retries_of(id) == Cardinality({k \in 1 .. Len(ci.retries) : ci.retries[k] = id})

\* handler has retried in this step
Retried == Len(ci.retries') = Len(ci.retries) + 1

(* C30. The pipeline-retry handler bounds retries: it calls                  *)
(* retry_stage_execution, always for the stage "build", only when "build"    *)
(* is among the failed stages and fewer than 3 consecutive Failed executions *)
(* head the history; so for a pipeline whose build keeps failing the failed  *)
(* execution is retried at most twice; and an answer with statusCode 500     *)
(* comes with no retry.                                                      *)
RetriesBounded ==
    /\ [][Retried
          => /\ ci'.result.retriedStage = "build"
             /\ stage_status("build") = "Failed"
             /\ recent_failures(ci.executions) < RetryThreshold]_vars
    /\ [][ci'.result # ci.result /\ ci'.result.statusCode = 500 => ~Retried]_vars
    /\ [](\A k \in 1 .. Len(ExecutionIds) : retries_of(ExecutionIds[k]) <= 2)

====
